---- MODULE Spec2Model ----
(***************************************************************************)
(* The in-memory rate limiter of package lib (rateLimiter, NewRateLimiter,  *)
(* resetVisitorCount, RLMiddleware): one mutex, one map RemoteAddr -> int,  *)
(* a background goroutine that replaces the map every resetTime, and an     *)
(* http middleware that increments the caller's counter and then compares   *)
(* it with the limit while holding the mutex until the handler returns.     *)
(***************************************************************************)
EXTENDS Integers, FiniteSets, Sequences, TLC

\* ---- bounds of the model ----
NumReq == 2          \* request-serving goroutines that can be in flight at once
MaxLimit == 2        \* largest limit passed to NewRateLimiter
MaxResetTime == 1    \* largest resetTime (in clock ticks) passed to NewRateLimiter
MaxCount == 3        \* requests of one key accepted by the model between two resets

Reqs == 1..NumReq
Keys == {"a", "b"}
\* r.RemoteAddr is a string the caller of the handler sets: it may also be the empty string
EmptyKey == ""
AnyKey == Keys \cup {EmptyKey}
Limits == 0..MaxLimit
ResetTimes == 0..MaxResetTime

\* ---- program constants ----
StatusTooManyRequests == 429
StatusOK == 200

\* holders of rl.mu: nobody, the reset goroutine, or a request goroutine of Reqs
Free == -1
ResetRoutine == 0

VARIABLES
  limit,        \* rl.limit
  resetTime,    \* rl.resetTime
  visitors,     \* rl.visitors : map[string]int
  mu,           \* rl.mu : Free, ResetRoutine or the request goroutine holding it
  pc,           \* position of each request goroutine inside the middleware
  key,          \* r.RemoteAddr of the request each goroutine is serving
  tmp,          \* the value read by rl.visitors[visitorIP]++ before it is written back
  status,       \* response status written for the request (0: none yet)
  nextCalls,    \* how often next.ServeHTTP was invoked for the request
  panicked,     \* whether next.ServeHTTP panicked for the request
  rpc,          \* position of the resetVisitorCount goroutine
  sleepLeft,    \* remaining time of its time.Sleep(rl.resetTime)
  \* history variables (observations, never read by the program)
  snap,         \* the map as it was when the current request took the mutex
  sinceReset,   \* time since the map was last replaced (or since construction)
  age,          \* per key in the map: time since its entry was created
  allowedW,     \* per key: requests allowed since the last reset
  decidedW,     \* per key: requests decided (allowed or denied) since the last reset
  lapsed,       \* per request: when it arrived, its key was over the limit in an entry at least resetTime old
  evicted,      \* the ages of the entries the reset routine has just dropped (until it unlocks)
  span,         \* a watched time span: its key, the time since its start, the requests allowed in it
  \* the other components of the repository
  srv,          \* the task-management Server during WaitForShutdown / Shutdown
  hc            \* the HealthController: the dependencies' state and the last probe's response

vars == <<limit, resetTime, visitors, mu, pc, key, tmp, status, nextCalls, panicked,
          rpc, sleepLeft, snap, sinceReset, age, allowedW, decidedW, lapsed, evicted, span, srv, hc>>

\* the state of the rate limiter
rlVars == <<limit, resetTime, visitors, mu, pc, key, tmp, status, nextCalls, panicked,
            rpc, sleepLeft, snap, sinceReset, age, allowedW, decidedW, lapsed, evicted, span>>

\* the state of the components the rate limiter never touches
aux == <<srv, hc>>

\* no server is being shut down, no health probe has been made
SrvOff == [pc |-> "off"]
HcOff == [op |-> "off"]

Min(x, y) == IF x < y THEN x ELSE y

\* nobody is watching a time span
SpanOff == [on |-> FALSE, key |-> "a", age |-> 0, allowed |-> 0]

\* m[k] of a Go map: the zero value when k is absent
Get(m, k) == IF k \in DOMAIN m THEN m[k] ELSE 0

Put_Shared(m, k, v) == [x \in DOMAIN m \cup {k} |-> v]

\* m[k] = v of a Go map: inserts k when absent
Put(m, k, v) == [x \in DOMAIN m \cup {k} |-> IF x = k THEN v ELSE m[x]]

\* make(map[string]int)
EmptyMap == [x \in {} |-> 0]

\* NewRateLimiter(limit, resetTime): empty map, reset goroutine started and asleep
Init ==
  /\ limit \in Limits
  /\ resetTime \in ResetTimes
  /\ visitors = EmptyMap
  /\ mu = Free
  /\ pc = [r \in Reqs |-> "idle"]
  /\ key = [r \in Reqs |-> "a"]
  /\ tmp = [r \in Reqs |-> 0]
  /\ status = [r \in Reqs |-> 0]
  /\ nextCalls = [r \in Reqs |-> 0]
  /\ panicked = [r \in Reqs |-> FALSE]
  /\ rpc = "sleep"
  /\ sleepLeft = resetTime
  /\ snap = EmptyMap
  /\ sinceReset = 0
  /\ age = EmptyMap
  /\ allowedW = [k \in AnyKey |-> 0]
  /\ decidedW = [k \in AnyKey |-> 0]
  /\ lapsed = [r \in Reqs |-> FALSE]
  /\ evicted = EmptyMap
  /\ span = SpanOff
  /\ srv = SrvOff
  /\ hc = HcOff

\* requests of key k that have entered the middleware and not yet written their increment
Pending(k) == Cardinality({r \in Reqs : key[r] = k /\ pc[r] \in {"lock", "read", "write"}})

\* an arriving request of key k finds the key over the limit (a request of it was denied)
\* in an entry that is at least resetTime old
Seen(k) == k \in DOMAIN visitors /\ visitors[k] > limit /\ age[k] >= resetTime

\* the http server hands a request with RemoteAddr k to the middleware on goroutine r
Arrive(r, k) ==
  /\ pc[r] = "idle"
  /\ Get(visitors, k) + Pending(k) < MaxCount
  /\ pc' = [pc EXCEPT ![r] = "lock"]
  /\ key' = [key EXCEPT ![r] = k]
  /\ lapsed' = [lapsed EXCEPT ![r] = Seen(k)]
  /\ UNCHANGED <<limit, resetTime, visitors, mu, tmp, status, nextCalls, panicked, rpc, sleepLeft,
                 snap, sinceReset, age, allowedW, decidedW, evicted>>
  /\ UNCHANGED aux
  /\ UNCHANGED span

CanLock_NoMutex == TRUE

\* sync.Mutex: Lock returns only when nobody holds the mutex
CanLock == mu = Free

\* rl.mu.Lock(); defer rl.mu.Unlock()
Lock(r) ==
  /\ pc[r] = "lock"
  /\ CanLock
  /\ mu' = r
  /\ pc' = [pc EXCEPT ![r] = "read"]
  /\ snap' = visitors
  /\ UNCHANGED <<limit, resetTime, visitors, key, tmp, status, nextCalls, panicked, rpc, sleepLeft,
                 sinceReset, age, allowedW, decidedW, lapsed, evicted>>
  /\ UNCHANGED aux
  /\ UNCHANGED span

\* visitorIP := r.RemoteAddr; rl.visitors[visitorIP]++  (the read half)
Read(r) ==
  /\ pc[r] = "read"
  /\ tmp' = [tmp EXCEPT ![r] = Get(visitors, key[r])]
  /\ pc' = [pc EXCEPT ![r] = "write"]
  /\ UNCHANGED <<limit, resetTime, visitors, mu, key, status, nextCalls, panicked, rpc, sleepLeft,
                 snap, sinceReset, age, allowedW, decidedW, lapsed, evicted>>
  /\ UNCHANGED aux
  /\ UNCHANGED span

Incremented_Twice(old) == old + 2

\* the value rl.visitors[visitorIP]++ stores
Incremented(old) == old + 1

\* rl.visitors[visitorIP]++  (the write half)
Write(r) ==
  /\ pc[r] = "write"
  /\ visitors' = Put(visitors, key[r], Incremented(tmp[r]))
  /\ age' = IF key[r] \in DOMAIN visitors THEN age ELSE Put(age, key[r], 0)
  /\ pc' = [pc EXCEPT ![r] = "check"]
  /\ UNCHANGED <<limit, resetTime, mu, key, tmp, status, nextCalls, panicked, rpc, sleepLeft,
                 snap, sinceReset, allowedW, decidedW, lapsed, evicted>>
  /\ UNCHANGED aux
  /\ UNCHANGED span

OverLimit_OffByOne(count, lim) == count >= lim

\* if rl.visitors[visitorIP] > rl.limit
OverLimit(count, lim) == count > lim

AfterDeny_FallThrough == "handler"

\* http.Error(...) is followed by return: the handler function ends, the deferred Unlock runs
AfterDeny == "unlock"

\* the time span being watched after a request of key k has been allowed: the request is counted
\* when it falls within the span, which lasts until resetTime units have passed since its start
Watched(k) ==
  IF span.on /\ span.key = k /\ span.age < resetTime
    THEN [span EXCEPT !.allowed = Min(@ + 1, 2 * limit + 1)]
    ELSE span

\* the branch taken: http.Error(w, ..., 429); return   or   next.ServeHTTP(w, r)
Check(r) ==
  /\ pc[r] = "check"
  /\ decidedW' = [decidedW EXCEPT ![key[r]] = Min(@ + 1, MaxCount + NumReq)]
  /\ IF OverLimit(Get(visitors, key[r]), limit)
       THEN /\ status' = [status EXCEPT ![r] = StatusTooManyRequests]
            /\ pc' = [pc EXCEPT ![r] = AfterDeny]
            /\ UNCHANGED <<nextCalls, allowedW>>
       ELSE /\ nextCalls' = [nextCalls EXCEPT ![r] = @ + 1]
            /\ pc' = [pc EXCEPT ![r] = "handler"]
            /\ allowedW' = [allowedW EXCEPT ![key[r]] = Min(@ + 1, MaxCount + NumReq)]
            /\ UNCHANGED status
  /\ UNCHANGED <<limit, resetTime, visitors, mu, key, tmp, panicked, rpc, sleepLeft,
                 snap, sinceReset, age, lapsed, evicted>>
  /\ span' = IF OverLimit(Get(visitors, key[r]), limit) THEN span ELSE Watched(key[r])
  /\ UNCHANGED aux

\* next.ServeHTTP(w, r) returns normally
HandlerReturn(r) ==
  /\ pc[r] = "handler"
  /\ status' = [status EXCEPT ![r] = StatusOK]
  /\ pc' = [pc EXCEPT ![r] = "unlock"]
  /\ UNCHANGED <<limit, resetTime, visitors, mu, key, tmp, nextCalls, panicked, rpc, sleepLeft,
                 snap, sinceReset, age, allowedW, decidedW, lapsed, evicted>>
  /\ UNCHANGED aux
  /\ UNCHANGED span

\* next.ServeHTTP(w, r) panics: the deferred Unlock still runs
HandlerPanic(r) ==
  /\ pc[r] = "handler"
  /\ panicked' = [panicked EXCEPT ![r] = TRUE]
  /\ pc' = [pc EXCEPT ![r] = "unlock"]
  /\ UNCHANGED <<limit, resetTime, visitors, mu, key, tmp, status, nextCalls, rpc, sleepLeft,
                 snap, sinceReset, age, allowedW, decidedW, lapsed, evicted>>
  /\ UNCHANGED aux
  /\ UNCHANGED span

Released_LeakOnDeny(r) == IF r \in Reqs /\ status[r] = StatusTooManyRequests THEN mu ELSE Free

\* the mutex after rl.mu.Unlock() by its holder r
Released(r) == IF mu = r THEN Free ELSE mu

\* the deferred rl.mu.Unlock() when the handler function returns; the goroutine is done
Unlock(r) ==
  /\ pc[r] = "unlock"
  /\ mu' = Released(r)
  /\ pc' = [pc EXCEPT ![r] = "idle"]
  /\ key' = [key EXCEPT ![r] = "a"]
  /\ tmp' = [tmp EXCEPT ![r] = 0]
  /\ status' = [status EXCEPT ![r] = 0]
  /\ nextCalls' = [nextCalls EXCEPT ![r] = 0]
  /\ panicked' = [panicked EXCEPT ![r] = FALSE]
  /\ lapsed' = [lapsed EXCEPT ![r] = FALSE]
  /\ snap' = EmptyMap
  /\ UNCHANGED <<limit, resetTime, visitors, rpc, sleepLeft, sinceReset, age, allowedW, decidedW, evicted>>
  /\ UNCHANGED aux
  /\ UNCHANGED span

SleepOver_Never == FALSE

\* time.Sleep returns once its duration has passed, not before
SleepOver == sleepLeft = 0

\* go rl.resetVisitorCount(): time.Sleep(rl.resetTime) returns
Wake ==
  /\ rpc = "sleep"
  /\ SleepOver
  /\ rpc' = "lock"
  /\ UNCHANGED <<limit, resetTime, visitors, mu, pc, key, tmp, status, nextCalls, panicked, sleepLeft,
                 snap, sinceReset, age, allowedW, decidedW, lapsed, evicted>>
  /\ UNCHANGED aux
  /\ UNCHANGED span

\* rl.mu.Lock() of the reset goroutine
ResetLock ==
  /\ rpc = "lock"
  /\ CanLock
  /\ mu' = ResetRoutine
  /\ rpc' = "clear"
  /\ UNCHANGED <<limit, resetTime, visitors, pc, key, tmp, status, nextCalls, panicked, sleepLeft,
                 snap, sinceReset, age, allowedW, decidedW, lapsed, evicted>>
  /\ UNCHANGED aux
  /\ UNCHANGED span

NewVisitors_Keep == visitors

\* the map the reset assigns: make(map[string]int)
NewVisitors == EmptyMap

\* rl.visitors = make(map[string]int)
Clear ==
  /\ rpc = "clear"
  /\ visitors' = NewVisitors
  /\ rpc' = "unlock"
  /\ sinceReset' = 0
  /\ age' = [k \in DOMAIN visitors' |-> age[k]]
  /\ allowedW' = [k \in AnyKey |-> 0]
  /\ decidedW' = [k \in AnyKey |-> 0]
  /\ evicted' = [k \in DOMAIN visitors \ DOMAIN visitors' |-> age[k]]
  /\ UNCHANGED <<limit, resetTime, mu, pc, key, tmp, status, nextCalls, panicked, sleepLeft,
                 snap, lapsed>>
  /\ UNCHANGED aux
  /\ UNCHANGED span

NextSleep_Short == IF resetTime > 0 THEN resetTime - 1 ELSE resetTime

\* the duration the next time.Sleep of the loop waits
NextSleep == resetTime

\* rl.mu.Unlock() of the reset goroutine, then the loop sleeps again
ResetUnlock ==
  /\ rpc = "unlock"
  /\ mu' = Released(ResetRoutine)
  /\ rpc' = "sleep"
  /\ sleepLeft' = NextSleep
  /\ evicted' = EmptyMap
  /\ UNCHANGED <<limit, resetTime, visitors, pc, key, tmp, status, nextCalls, panicked,
                 snap, sinceReset, age, allowedW, decidedW, lapsed>>
  /\ UNCHANGED aux
  /\ UNCHANGED span

\* measured durations saturate at resetTime, the only value they are compared with
Cap == resetTime

\* one unit of time passes
Tick ==
  /\ sleepLeft' = IF rpc = "sleep" /\ sleepLeft > 0 THEN sleepLeft - 1 ELSE sleepLeft
  /\ sinceReset' = Min(sinceReset + 1, Cap)
  /\ age' = [k \in DOMAIN age |-> Min(age[k] + 1, Cap)]
  /\ UNCHANGED <<limit, resetTime, visitors, mu, pc, key, tmp, status, nextCalls, panicked, rpc,
                 snap, allowedW, decidedW, lapsed, evicted>>
  /\ span' = IF span.on THEN [span EXCEPT !.age = Min(@ + 1, Cap)] ELSE span
  /\ UNCHANGED aux

Next ==
  \/ \E r \in Reqs, k \in Keys : Arrive(r, k)
  \/ \E r \in Reqs : Lock(r)
  \/ \E r \in Reqs : Read(r)
  \/ \E r \in Reqs : Write(r)
  \/ \E r \in Reqs : Check(r)
  \/ \E r \in Reqs : HandlerReturn(r)
  \/ \E r \in Reqs : HandlerPanic(r)
  \/ \E r \in Reqs : Unlock(r)
  \/ Wake
  \/ ResetLock
  \/ Clear
  \/ ResetUnlock
  \/ Tick

Spec == Init /\ [][Next]_vars

\* Scheduling assumptions for progress: every goroutine that can take a step eventually takes
\* it, a goroutine blocked in Lock is not passed over forever (sync.Mutex hands the mutex to a
\* starving waiter), the downstream handler returns or panics, and time passes.
Fairness ==
  /\ \A r \in Reqs :
        /\ SF_vars(Lock(r))
        /\ WF_vars(Read(r))
        /\ WF_vars(Write(r))
        /\ WF_vars(Check(r))
        /\ WF_vars(HandlerReturn(r) \/ HandlerPanic(r))
        /\ WF_vars(Unlock(r))
  /\ WF_vars(Wake)
  /\ SF_vars(ResetLock)
  /\ WF_vars(Clear)
  /\ WF_vars(ResetUnlock)
  /\ WF_vars(Tick)

\* progress is checked for the limiter built by NewRateLimiter(1, 1)
LiveInit == Init /\ limit = 1 /\ resetTime = 1

LiveSpec == LiveInit /\ [][Next]_vars /\ Fairness

TypeOK ==
  /\ limit \in Limits
  /\ resetTime \in ResetTimes
  /\ DOMAIN visitors \subseteq Keys
  /\ mu \in {Free, ResetRoutine} \cup Reqs
  /\ sleepLeft \in 0..MaxResetTime

\* the request of goroutine r has been decided and r has not yet left the middleware
Decided(r) == pc[r] \in {"handler", "unlock"}

\* the decided request of goroutine r was denied / allowed
Denied(r) == Decided(r) /\ status[r] = StatusTooManyRequests
Allowed(r) == Decided(r) /\ status[r] # StatusTooManyRequests

----------------------------------------------------------------------------
\* C1. Limit invariant: with limit >= 1, the number of requests of one key that are allowed
\* between two consecutive resets of the counters never exceeds limit, whatever the
\* interleaving of the request goroutines.
C1_LimitInvariant ==
  limit >= 1 => \A k \in Keys : allowedW[k] <= limit

\* a request is being denied while exactly limit requests of its key were allowed in the window
C1_Witness ==
  /\ limit >= 1
  /\ \E r \in Reqs : Denied(r) /\ allowedW[key[r]] = limit

\* C2. No lost updates: of the N requests of one key decided within one window exactly
\* min(N, limit) are allowed (and the other N - min(N, limit) denied), for every interleaving.
C2_ExactlyMin ==
  limit >= 1 => \A k \in Keys : allowedW[k] = Min(decidedW[k], limit)

\* more requests than limit were decided for a key while a further one waits for the mutex
C2_Witness ==
  /\ limit >= 1
  /\ \E k \in Keys : /\ decidedW[k] > limit
                      /\ allowedW[k] = limit
                      /\ \E r \in Reqs : pc[r] = "lock" /\ key[r] = k
\* C3 (as stated). A denied request changes no limiter state: when a request is denied, the
\* counter of its key and every other entry of the store are as they were before the request.
C3_Original ==
  \A r \in Reqs : Denied(r) => visitors = snap

\* C3 (amended). A denied request adds exactly one to the counter of its own key (the counter
\* counts denied requests too) and leaves every other entry of the store as it was.
C3_DeniedIncrementsOwnKey ==
  \A r \in Reqs : Denied(r) => visitors = Put(snap, key[r], Get(snap, key[r]) + 1)

\* a request is being denied while the store also holds an entry of the other key
C3_Witness ==
  \E r \in Reqs : Denied(r) /\ DOMAIN visitors = Keys

\* an entry of the map leaves it, or its counter goes back to 0
ResetOf(k) == k \in DOMAIN visitors /\ Get(visitors', k) = 0

\* C4 (as stated). Per-key windows: the counter of a key is reset to 0 only when that key's own
\* window has elapsed, i.e. its entry is at least resetTime old, never earlier.
C4_Original ==
  [][\A k \in Keys : ResetOf(k) => age[k] >= resetTime]_vars

\* C4 (amended). All keys share one window: the counter of a key is reset only by the reset
\* routine, which clears every key at once and never runs sooner than resetTime after the
\* previous reset (or after construction); the key's own entry may be younger than that.
C4_GlobalWindow ==
  [][\A k \in Keys : ResetOf(k) =>
        /\ rpc = "clear" /\ rpc' = "unlock"
        /\ visitors' = EmptyMap
        /\ sinceReset >= resetTime]_vars

\* the reset routine has just cleared the map and dropped an entry younger than resetTime
C4_Witness ==
  /\ rpc = "unlock"
  /\ visitors = EmptyMap
  /\ \E k \in DOMAIN evicted : evicted[k] < resetTime

\* C5 (as stated). Window reset: with limit >= 1 and resetTime >= 1, a key that was denied is
\* allowed again on its first request after its window has elapsed, i.e. a request that
\* arrives when the key's entry is at least resetTime old is not denied.
C5_Original ==
  (limit >= 1 /\ resetTime >= 1) =>
     \A r \in Reqs : (Decided(r) /\ lapsed[r]) => ~Denied(r)

\* C5 (amended). With limit >= 1, a key that was denied is allowed again on its first request
\* decided after the next global reset, regardless of its prior count (until that reset has
\* run, the passing of resetTime alone does not re-admit the key).
C5_AllowedAfterReset ==
  limit >= 1 =>
     \A r \in Reqs : (Decided(r) /\ decidedW[key[r]] = 1) => Allowed(r)

\* a request that arrived while its key was over the limit is the first one decided after a
\* reset and is allowed
C5_Witness ==
  /\ limit >= 1
  /\ \E r \in Reqs : /\ lapsed[r]
                     /\ pc[r] = "handler"
                     /\ decidedW[key[r]] = 1

\* C6. Key independence: a step of a request for key a never changes the counter of a key
\* b # a (only the reset routine does), and a request is denied only when the requests of its
\* own key in the window exceed limit, however saturated the other keys are.
C6_KeyIndependence ==
  [][/\ \A b \in Keys : Get(visitors', b) # Get(visitors, b) =>
            \/ rpc = "clear" /\ rpc' = "unlock"
            \/ \E r \in Reqs : key[r] = b /\ pc[r] = "write" /\ pc'[r] = "check"
     /\ \A r \in Reqs : Denied(r)' => decidedW'[key'[r]] > limit']_vars

\* key a is over its limit and a request of key b is allowed
C6_Witness ==
  /\ limit >= 1
  /\ Get(visitors, "a") > limit
  /\ \E r \in Reqs : key[r] = "b" /\ pc[r] = "handler"

\* C7. Middleware short-circuit: the next handler is invoked exactly once for an allowed
\* request and never for a denied one; a denied request gets 429 and no handler runs for it.
C7_ShortCircuit ==
  \A r \in Reqs :
     /\ nextCalls[r] <= 1
     /\ pc[r] = "handler" => (nextCalls[r] = 1 /\ status[r] = 0)
     /\ pc[r] = "unlock" =>
           \/ status[r] = StatusTooManyRequests /\ nextCalls[r] = 0 /\ ~panicked[r]
           \/ status[r] = StatusOK /\ nextCalls[r] = 1 /\ ~panicked[r]
           \/ status[r] = 0 /\ nextCalls[r] = 1 /\ panicked[r]
     /\ (pc[r] = "unlock" /\ status[r] = StatusTooManyRequests) => OverLimit(visitors[key[r]], limit)

\* one request leaves the middleware with 429 and no handler call
C7_Witness ==
  \E r \in Reqs : pc[r] = "unlock" /\ status[r] = StatusTooManyRequests /\ nextCalls[r] = 0

\* C8 (as stated). The mutex is held only for the increment-and-compare step and is released
\* before the downstream handler runs: while a handler executes, the mutex is free for another
\* request's decision and for the reset routine.
C8_Original ==
  \A r \in Reqs : pc[r] = "handler" => mu # r
C11_Original ==
  (limit <= 0 \/ resetTime <= 0) =>
     /\ \A r \in Reqs : ~Decided(r)
     /\ rpc = "sleep"

\* the Retry-After hints the response to the request of goroutine r carries: http.Error writes
\* the status line, Content-Type and the text, and nothing else
RetryAfterOf(r) == {}

\* C12 (as stated). On denial the result carries retryAfter = max(0, windowStart +
\* windowDuration - now), where windowStart is the time the key's entry was created.
C12_Original ==
  \A r \in Reqs : Denied(r) =>
     RetryAfterOf(r) = {IF resetTime - age[key[r]] > 0 THEN resetTime - age[key[r]] ELSE 0}
\* the limiter behind a server whose requests may carry an empty RemoteAddr
EmptyKeyNext ==
  \/ \E r \in Reqs, k \in {EmptyKey, "a"} : Arrive(r, k)
  \/ \E r \in Reqs : Lock(r)
  \/ \E r \in Reqs : Read(r)
  \/ \E r \in Reqs : Write(r)
  \/ \E r \in Reqs : Check(r)
  \/ \E r \in Reqs : HandlerReturn(r)
  \/ \E r \in Reqs : HandlerPanic(r)
  \/ \E r \in Reqs : Unlock(r)
  \/ Wake
  \/ ResetLock
  \/ Clear
  \/ ResetUnlock
  \/ Tick

EmptyKeySpec == Init /\ [][EmptyKeyNext]_vars

\* C13 (as stated). A request whose admission key is empty is rejected by the middleware before
\* the admission decision: no store entry is ever created or incremented for the empty key, and
\* no request with the empty key is ever decided (allowed or denied with 429).
C13_Original ==
  /\ EmptyKey \notin DOMAIN visitors
  /\ \A r \in Reqs : key[r] = EmptyKey => ~Decided(r)
\* C18. The admit step is linearizable per key: the read, the increment and the comparison of a
\* key's counter form one critical section under the mutex, so the count a request read is
\* still the stored count when it writes its increment (no two requests read the same
\* pre-increment count and both increment it), and a request that follows the first request of
\* a new key observes the entry that one created.
C18_Linearizable ==
  \A r \in Reqs :
     /\ pc[r] \in {"read", "write", "check"} => mu = r
     /\ pc[r] = "write" => tmp[r] = Get(visitors, key[r])
     /\ pc[r] = "check" => /\ visitors[key[r]] = tmp[r] + 1
                           /\ tmp[r] = Get(snap, key[r])

\* a request has read the count left by an earlier request of its key and written its own
\* increment, while a further request of the same key waits for the mutex
C18_Witness ==
  \E r, q \in Reqs : /\ r # q
                     /\ key[r] = key[q]
                     /\ pc[r] = "check"
                     /\ tmp[r] >= 1
                     /\ pc[q] = "lock"
\* C19 (as stated). Counter bound: in every reachable state every key's stored count satisfies
\* 0 <= count <= limit; limit is the highest value a counter ever takes.
C19_Original ==
  limit >= 1 => \A k \in DOMAIN visitors : 0 <= visitors[k] /\ visitors[k] <= limit

\* requests of key k that have written their increment and not yet compared it with limit
Counted(k) == Cardinality({r \in Reqs : key[r] = k /\ pc[r] = "check"})

\* C19 (amended). Every stored count is at least 1 and equals the number of requests of its key
\* counted since the last reset, allowed and denied alike: the counter is incremented on every
\* request, so it is not bounded by limit and is above limit whenever a request is denied.
C19_CountsEveryRequest ==
  /\ \A k \in DOMAIN visitors : /\ visitors[k] >= 1
                                /\ visitors[k] = decidedW[k] + Counted(k)
  /\ \A r \in Reqs : Denied(r) => visitors[key[r]] > limit

\* with limit >= 1, a counter stands two above limit
C19_Witness ==
  /\ limit >= 1
  /\ \E k \in DOMAIN visitors : visitors[k] >= limit + 2
\* C20. Global reset: every run of the background reset routine clears the counters of all keys
\* in one step (the store becomes empty and every key that was in it leaves it together),
\* regardless of when each key made its first request in the window.
C20_GlobalReset ==
  [][(rpc = "clear" /\ rpc' = "unlock") =>
        /\ visitors' = EmptyMap
        /\ DOMAIN evicted' = DOMAIN visitors
        /\ \A k \in DOMAIN visitors : evicted'[k] = age[k]]_vars

\* one run of the reset routine has removed both keys, whose entries were of different ages
C20_Witness ==
  /\ rpc = "unlock"
  /\ DOMAIN evicted = Keys
  /\ \E k, j \in Keys : evicted[k] < evicted[j]
----------------------------------------------------------------------------
\* The task-management server: WaitForShutdown and Shutdown (internal/app/server.go).

MaxActive == 2
MaxTimeout == 2

\* the signals WaitForShutdown registers with signal.Notify
Signals == {"SIGINT", "SIGTERM"}

\* the variables of a rate limiter that is constructed and that nobody calls
RlParked ==
  /\ limit = 1
  /\ resetTime = 1
  /\ visitors = EmptyMap
  /\ mu = Free
  /\ pc = [r \in Reqs |-> "idle"]
  /\ key = [r \in Reqs |-> "a"]
  /\ tmp = [r \in Reqs |-> 0]
  /\ status = [r \in Reqs |-> 0]
  /\ nextCalls = [r \in Reqs |-> 0]
  /\ panicked = [r \in Reqs |-> FALSE]
  /\ rpc = "sleep"
  /\ sleepLeft = resetTime
  /\ snap = EmptyMap
  /\ sinceReset = 0
  /\ age = EmptyMap
  /\ allowedW = [k \in AnyKey |-> 0]
  /\ decidedW = [k \in AnyKey |-> 0]
  /\ lapsed = [r \in Reqs |-> FALSE]
  /\ evicted = EmptyMap
  /\ span = SpanOff

\* the server is running and WaitForShutdown blocks on <-quit; the rate limiter is not part of
\* this server
ShutdownInit ==
  /\ RlParked
  /\ hc = HcOff
  /\ \E h, rd, db \in BOOLEAN, t \in 0..MaxTimeout :
        srv = [pc |-> "serving", httpServer |-> h, Redis |-> rd, DB |-> db,
               ShutdownTimeout |-> t, left |-> t, accepting |-> h, active |-> 0,
               sig |-> "none", httpErr |-> FALSE, closed |-> <<>>]

\* the http server accepts a request and starts serving it
RequestStart ==
  /\ srv.pc \in {"serving", "shutdown"}
  /\ srv.accepting
  /\ srv.active < MaxActive
  /\ srv' = [srv EXCEPT !.active = @ + 1]
  /\ UNCHANGED <<rlVars, hc>>

\* a request being served completes
RequestEnd ==
  /\ srv.pc \in {"serving", "shutdown", "draining", "redis", "db", "done"}
  /\ srv.active > 0
  /\ srv' = [srv EXCEPT !.active = @ - 1]
  /\ UNCHANGED <<rlVars, hc>>

\* <-quit receives sg; WaitForShutdown calls Shutdown, which creates the context with
\* ShutdownTimeout
Signal(sg) ==
  /\ srv.pc = "serving"
  /\ srv' = [srv EXCEPT !.pc = "shutdown", !.sig = sg, !.left = srv.ShutdownTimeout]
  /\ UNCHANGED <<rlVars, hc>>

\* if s.httpServer != nil { s.httpServer.Shutdown(ctx) }: the listeners are closed first
HttpShutdown ==
  /\ srv.pc = "shutdown"
  /\ IF srv.httpServer
       THEN srv' = [srv EXCEPT !.pc = "draining", !.accepting = FALSE,
                               !.closed = Append(@, "http")]
       ELSE srv' = [srv EXCEPT !.pc = "redis"]
  /\ UNCHANGED <<rlVars, hc>>

\* httpServer.Shutdown returns nil: no request is active any more
DrainDone ==
  /\ srv.pc = "draining"
  /\ srv.active = 0
  /\ srv' = [srv EXCEPT !.pc = "redis"]
  /\ UNCHANGED <<rlVars, hc>>

\* httpServer.Shutdown returns the context's error: the timeout passed with requests still
\* active; the error is logged and Shutdown goes on
DrainTimeout ==
  /\ srv.pc = "draining"
  /\ srv.active > 0
  /\ srv.left = 0
  /\ srv' = [srv EXCEPT !.pc = "redis", !.httpErr = TRUE]
  /\ UNCHANGED <<rlVars, hc>>

\* one unit of the shutdown timeout passes
ShutdownTick ==
  /\ srv.pc \in {"shutdown", "draining"}
  /\ srv.left > 0
  /\ srv' = [srv EXCEPT !.left = @ - 1]
  /\ UNCHANGED <<rlVars, hc>>

\* if s.Redis != nil { connections.CloseRedis(s.Redis, s.Logger) }
CloseRedis ==
  /\ srv.pc = "redis"
  /\ srv' = [srv EXCEPT !.pc = "db",
                        !.closed = IF srv.Redis THEN Append(@, "redis") ELSE @]
  /\ UNCHANGED <<rlVars, hc>>

\* if s.DB != nil { s.DB.Close() }
CloseDB ==
  /\ srv.pc = "db"
  /\ srv' = [srv EXCEPT !.pc = "done",
                        !.closed = IF srv.DB THEN Append(@, "db") ELSE @]
  /\ UNCHANGED <<rlVars, hc>>

\* Shutdown returns nil, WaitForShutdown returns and the process exits
ShutdownReturn ==
  /\ srv.pc = "done"
  /\ srv' = [srv EXCEPT !.pc = "exited", !.active = 0]
  /\ UNCHANGED <<rlVars, hc>>

ShutdownNext ==
  \/ RequestStart
  \/ RequestEnd
  \/ \E sg \in Signals : Signal(sg)
  \/ HttpShutdown
  \/ DrainDone
  \/ DrainTimeout
  \/ ShutdownTick
  \/ CloseRedis
  \/ CloseDB
  \/ ShutdownReturn

ShutdownSpec == ShutdownInit /\ [][ShutdownNext]_vars

\* the position of resource x in the order of closing, 0 when it has not been closed
ClosedAt(x) ==
  IF \E i \in 1..Len(srv.closed) : srv.closed[i] = x
    THEN CHOOSE i \in 1..Len(srv.closed) : srv.closed[i] = x
    ELSE 0

\* C14 (as stated). Graceful shutdown order: after SIGINT/SIGTERM, Shutdown first stops the HTTP
\* server, then closes the database connections, and only then the Redis connections (Redis is
\* never closed while an open database connection is still to be closed); neither connection
\* is closed before the HTTP server shutdown has been attempted.
C14_Original ==
  /\ (srv.httpServer /\ (ClosedAt("db") > 0 \/ ClosedAt("redis") > 0)) => ClosedAt("http") = 1
  /\ (srv.DB /\ ClosedAt("redis") > 0) => (ClosedAt("db") > 0 /\ ClosedAt("db") < ClosedAt("redis"))
----------------------------------------------------------------------------
\* The health endpoints: Health, LivenessProbe, ReadinessProbe (features/health/handler.go)
\* and the checks they call (utils/logger.go).

StatusServiceUnavailable == 503

\* usagePercent = int(HeapAlloc / HeapSys * 100) with HeapAlloc <= HeapSys
MaxPercent == 100

\* the keys of the checks map
CheckNames == {"database", "redis", "memory", "disk"}

\* the orders in which range may iterate over the checks map
Orders == {o \in [1..4 -> CheckNames] : \A i, j \in 1..4 : o[i] = o[j] => i = j}

\* CheckDatabasePool: "unhealthy" when the ping fails, else "healthy"
CheckDatabasePool(ok) == IF ok THEN "healthy" ELSE "unhealthy"

\* CheckRedis: "unhealthy" when the ping fails, else "healthy"
CheckRedis(ok) == IF ok THEN "healthy" ELSE "unhealthy"

\* CheckDisk: "unhealthy" when the working directory cannot be read, else "healthy"
CheckDisk(ok) == IF ok THEN "healthy" ELSE "unhealthy"

\* CheckMemory: status := "healthy"; if usagePercent > 90 {...} else if usagePercent > 95 {...}
CheckMemory(usagePercent) ==
  IF usagePercent > 90 THEN "warning"
  ELSE IF usagePercent > 95 THEN "critical"
  ELSE "healthy"

Breaks_OnWarning(check) == check \in {"unhealthy", "warning"}

\* the loop over the checks ends at: if check == "unhealthy" { ...; break }
Breaks(check) == check = "unhealthy"

\* overallStatus after one pass of the loop body
Assigned(check, overall) ==
  IF check = "unhealthy" THEN "unhealthy"
  ELSE IF check = "warning" /\ overall # "unhealthy" THEN "warning"
  ELSE overall

\* for _, check := range checks {...} over the values in iteration order, from overallStatus
RECURSIVE RangeChecks(_, _)
RangeChecks(values, overall) ==
  IF values = <<>> THEN overall
  ELSE IF Breaks(Head(values)) THEN Assigned(Head(values), overall)
  ELSE RangeChecks(Tail(values), Assigned(Head(values), overall))

\* the dependencies as they are, no probe answered yet
HealthInit ==
  /\ RlParked
  /\ srv = SrvOff
  /\ \E d, rd, dk \in BOOLEAN, p \in 0..MaxPercent :
        hc = [op |-> "none", db |-> d, redis |-> rd, disk |-> dk, usagePercent |-> p,
              order |-> <<>>, checks |-> <<>>, status |-> "", reason |-> "", code |-> 0]

\* the response fields of a controller that has answered no probe since the last change
NoResponse == [hc EXCEPT !.op = "none", !.order = <<>>, !.checks = <<>>, !.status = "",
                         !.reason = "", !.code = 0]

\* GET /health, the checks map being iterated in order o
Health(o) ==
  /\ hc.op # "off"
  /\ LET checks == [database |-> CheckDatabasePool(hc.db),
                    redis |-> CheckRedis(hc.redis),
                    memory |-> CheckMemory(hc.usagePercent),
                    disk |-> CheckDisk(hc.disk)]
         overallStatus == RangeChecks([i \in 1..4 |-> checks[o[i]]], "healthy")
     IN hc' = [hc EXCEPT !.op = "health", !.order = o, !.checks = checks,
                         !.status = overallStatus, !.reason = "",
                         !.code = IF overallStatus = "unhealthy"
                                    THEN StatusServiceUnavailable ELSE StatusOK]
  /\ UNCHANGED <<rlVars, srv>>

\* GET /health/live
LivenessProbe ==
  /\ hc.op # "off"
  /\ hc' = [NoResponse EXCEPT !.op = "live", !.status = "alive", !.code = StatusOK]
  /\ UNCHANGED <<rlVars, srv>>

ReadyResponse_DbOnly(dbStatus, redisStatus) ==
  IF dbStatus # "healthy"
    THEN [code |-> StatusServiceUnavailable, status |-> "not_ready", reason |-> "database_unhealthy"]
    ELSE [code |-> StatusOK, status |-> "ready", reason |-> ""]

\* the answer of ReadinessProbe: the database is looked at first, then Redis
ReadyResponse(dbStatus, redisStatus) ==
  IF dbStatus # "healthy"
    THEN [code |-> StatusServiceUnavailable, status |-> "not_ready", reason |-> "database_unhealthy"]
  ELSE IF redisStatus # "healthy"
    THEN [code |-> StatusServiceUnavailable, status |-> "not_ready", reason |-> "redis_unhealthy"]
  ELSE [code |-> StatusOK, status |-> "ready", reason |-> ""]

\* GET /health/ready
ReadinessProbe ==
  /\ hc.op # "off"
  /\ LET resp == ReadyResponse(CheckDatabasePool(hc.db), CheckRedis(hc.redis))
     IN hc' = [NoResponse EXCEPT !.op = "ready", !.status = resp.status,
                                 !.reason = resp.reason, !.code = resp.code]
  /\ UNCHANGED <<rlVars, srv>>

\* the database, Redis or the disk goes down or comes back
DatabaseFlip ==
  /\ hc.op # "off"
  /\ hc' = [NoResponse EXCEPT !.db = ~hc.db]
  /\ UNCHANGED <<rlVars, srv>>

RedisFlip ==
  /\ hc.op # "off"
  /\ hc' = [NoResponse EXCEPT !.redis = ~hc.redis]
  /\ UNCHANGED <<rlVars, srv>>

DiskFlip ==
  /\ hc.op # "off"
  /\ hc' = [NoResponse EXCEPT !.disk = ~hc.disk]
  /\ UNCHANGED <<rlVars, srv>>

\* the share of the heap in use grows or shrinks
HeapGrow ==
  /\ hc.op # "off"
  /\ hc.usagePercent < MaxPercent
  /\ hc' = [NoResponse EXCEPT !.usagePercent = @ + 1]
  /\ UNCHANGED <<rlVars, srv>>

HeapShrink ==
  /\ hc.op # "off"
  /\ hc.usagePercent > 0
  /\ hc' = [NoResponse EXCEPT !.usagePercent = @ - 1]
  /\ UNCHANGED <<rlVars, srv>>

HealthNext ==
  \/ \E o \in Orders : Health(o)
  \/ LivenessProbe
  \/ ReadinessProbe
  \/ DatabaseFlip
  \/ RedisFlip
  \/ DiskFlip
  \/ HeapGrow
  \/ HeapShrink

HealthSpec == HealthInit /\ [][HealthNext]_vars

\* the statuses in the checks map of the last /health response
Statuses == {hc.checks[n] : n \in CheckNames}

\* C15. GET /health aggregates the four checks deterministically, whatever the iteration order
\* of the map: the overall status is "unhealthy" iff some check is "unhealthy", otherwise
\* "warning" iff some check is "warning", otherwise "healthy"; the HTTP status is 503 iff the
\* overall status is "unhealthy", and 200 otherwise.
C15_Aggregation ==
  hc.op = "health" =>
     /\ hc.status = "unhealthy" <=> "unhealthy" \in Statuses
     /\ hc.status = "warning" <=> ("unhealthy" \notin Statuses /\ "warning" \in Statuses)
     /\ hc.status = "healthy" <=> ("unhealthy" \notin Statuses /\ "warning" \notin Statuses)
     /\ hc.code = StatusServiceUnavailable <=> hc.status = "unhealthy"
     /\ hc.code = StatusOK <=> hc.status # "unhealthy"

\* the loop met the memory warning first and an unhealthy check last: the answer is 503
\* unhealthy
C15_Witness ==
  /\ hc.op = "health"
  /\ hc.checks[hc.order[1]] = "warning"
  /\ hc.checks[hc.order[4]] = "unhealthy"
  /\ hc.status = "unhealthy"
  /\ hc.code = StatusServiceUnavailable

\* C16 (as stated). Memory thresholds: for every heap usage percentage p in 0..100 CheckMemory
\* reports "healthy" when p <= 90, "warning" when 90 < p <= 95 and "critical" when p > 95.
C16_Original ==
  hc.op = "health" =>
     hc.checks.memory = IF hc.usagePercent <= 90 THEN "healthy"
                        ELSE IF hc.usagePercent <= 95 THEN "warning"
                        ELSE "critical"

\* C17. Readiness: GET /health/ready returns 200 "ready" iff the database check and the Redis
\* check are both "healthy" and 503 "not_ready" in every other case; GET /health/live returns
\* 200 in every state, never 503.
C17_Readiness ==
  /\ hc.op = "ready" =>
        IF CheckDatabasePool(hc.db) = "healthy" /\ CheckRedis(hc.redis) = "healthy"
          THEN hc.code = StatusOK /\ hc.status = "ready"
          ELSE hc.code = StatusServiceUnavailable /\ hc.status = "not_ready"
  /\ hc.op = "live" => hc.code = StatusOK

\* the database is up, Redis is down and memory is in warning: the readiness probe answered
\* 503 not_ready because of Redis
C17_Witness ==
  /\ hc.op = "ready"
  /\ hc.db /\ ~hc.redis
  /\ hc.usagePercent > 90
  /\ hc.code = StatusServiceUnavailable
  /\ hc.reason = "redis_unhealthy"
----------------------------------------------------------------------------
\* C21 (as stated). The eviction sweep removes only stale entries: an entry is deleted only when
\* it is older than evictionGrace >= windowDuration, so an entry whose window is still current
\* (younger than resetTime) is never removed.
C21_Original ==
  rpc = "unlock" => \A k \in DOMAIN evicted : evicted[k] >= resetTime

\* C22. A reset racing with a request for the same key behaves as one of the two serial orders:
\* the reset runs only while no request is between Lock and Unlock and leaves the key absent
\* (request first, then reset); the first request decided after a reset finds a fresh entry
\* holding only itself (reset first, then request); a request's increment is applied to the
\* count it read in the live map, never to a stale count or a discarded map.
C22_SerialOrders ==
  /\ rpc \in {"clear", "unlock"} =>
        /\ mu = ResetRoutine
        /\ \A r \in Reqs : pc[r] \in {"idle", "lock"}
  /\ rpc = "unlock" => visitors = EmptyMap
  /\ \A r \in Reqs : Decided(r) =>
        /\ visitors[key[r]] = tmp[r] + 1
        /\ decidedW[key[r]] = 1 => visitors[key[r]] = 1

\* the reset routine has just removed the entry of a key while a request of that key waits for
\* the mutex
C22_Witness ==
  /\ rpc = "unlock"
  /\ \E r \in Reqs : pc[r] = "lock" /\ key[r] \in DOMAIN evicted
\* C23. A key's count is never negative, and between two consecutive resets it never
\* decreases: the only step that lowers a count is the reset routine's replacement of the map.
C23_Monotone ==
  /\ [](\A k \in DOMAIN visitors : visitors[k] >= 0)
  /\ [][\A k \in Keys : Get(visitors', k) < Get(visitors, k) =>
           (rpc = "clear" /\ rpc' = "unlock")]_vars

\* a count has grown to 2 or more within a window and the reset routine is about to clear it
C23_Witness ==
  /\ rpc = "clear"
  /\ resetTime >= 1
  /\ \E k \in DOMAIN visitors : visitors[k] >= 2

\* C24. Decision equivalence: increment-then-compare (count++ followed by count > limit) decides
\* as check-then-increment (allow iff the capped count before the request is below limit): the
\* k-th request of a key since the last reset is allowed iff k <= limit.
C24_DecisionEquivalence ==
  \A r \in Reqs : Decided(r) =>
     /\ Allowed(r) <=> decidedW[key[r]] <= limit
     /\ Allowed(r) <=> Min(tmp[r], limit) < limit

\* with limit >= 2, the limit-th request of a key is allowed, the last one before denials start
C24_Witness ==
  /\ limit >= 2
  /\ \E r \in Reqs : Allowed(r) /\ decidedW[key[r]] = limit

\* C25. Store content invariant: whenever the mutex is free, the visitors map holds exactly the
\* keys that had at least one request counted since the last reset, and each key's value is the
\* total number of its requests, allowed plus denied, since the last reset.
C25_StoreContent ==
  mu = Free =>
     \A k \in Keys : /\ k \in DOMAIN visitors <=> decidedW[k] >= 1
                     /\ Get(visitors, k) = decidedW[k]
                     /\ decidedW[k] - allowedW[k] = (IF decidedW[k] > limit THEN decidedW[k] - limit ELSE 0)

\* the mutex is free, one key holds allowed and denied requests and the other key is absent
C25_Witness ==
  /\ mu = Free
  /\ limit >= 1
  /\ \E k, j \in Keys : /\ k \in DOMAIN visitors
                        /\ visitors[k] > limit
                        /\ allowedW[k] = limit
                        /\ j \notin DOMAIN visitors
\* the request of goroutine r is between its counter increment and the return of its handler
InFlight(r) == pc[r] \in {"check", "handler", "unlock"}

\* C27. Reset never interleaves with an in-flight request: the store is never cleared while a
\* request is between its counter increment and the return of its downstream handler (a pending
\* reset waits for the mutex until the handler has returned), and a window, from one clearing
\* of the store to the next, is never shorter than resetTime.
C27_NoInterleave ==
  /\ [](\A r \in Reqs : InFlight(r) => (mu = r /\ rpc \in {"sleep", "lock"}))
  /\ [][(rpc = "clear" /\ rpc' = "unlock") =>
           /\ \A r \in Reqs : ~InFlight(r)
           /\ sinceReset >= resetTime]_vars

\* a handler is running while the reset routine, its sleep of resetTime >= 1 over, waits for
\* the mutex
C27_Witness ==
  /\ resetTime >= 1
  /\ rpc = "lock"
  /\ sinceReset >= resetTime
  /\ \E r \in Reqs : pc[r] = "handler" /\ Get(visitors, key[r]) = 1

\* C28. Lock release on every exit path: the mutex is released whenever a request leaves
\* RLMiddleware, whether it was denied, its handler returned normally or its handler panicked,
\* and by the reset routine after each clearing; when no request is inside the middleware's
\* critical section and the reset routine is outside its own, the mutex is free.
C28_LockReleased ==
  /\ []((rpc \in {"sleep", "lock"} /\ \A r \in Reqs : pc[r] \in {"idle", "lock"}) => mu = Free)
  /\ [][/\ \A r \in Reqs : (pc[r] = "unlock" /\ pc'[r] = "idle") => (mu = r /\ mu' = Free)
        /\ (rpc = "unlock" /\ rpc' = "sleep") => (mu = ResetRoutine /\ mu' = Free)]_vars

\* a request whose handler panicked is about to leave the middleware while another request
\* waits for the mutex
C28_Witness ==
  \E r, q \in Reqs : /\ pc[r] = "unlock"
                     /\ panicked[r]
                     /\ mu = r
                     /\ pc[q] = "lock"

\* C29. Key granularity: two requests share a counter iff their RemoteAddr strings are
\* identical: a request's increment changes the counter of its own RemoteAddr and of no other,
\* so requests from P different addresses (one host, P source ports) are counted under P
\* counters and up to P x limit of them are allowed in one window.
C29_KeyGranularity ==
  /\ [](limit >= 1 => allowedW["a"] + allowedW["b"] <= Cardinality(Keys) * limit)
  /\ [][\A r \in Reqs : (pc[r] = "write" /\ pc'[r] = "check") =>
           \A k \in Keys : Get(visitors', k) # Get(visitors, k) <=> k = key[r]]_vars

\* limit requests of each of the two addresses have been allowed in one window
C29_Witness ==
  /\ limit >= 1
  /\ \A k \in Keys : allowedW[k] = limit /\ visitors[k] = limit
----------------------------------------------------------------------------
\* Bursts across a reset. Time is counted in whole units and a step takes no time here, while
\* in the program the steps of the reset routine take some: two resets that are resetTime units
\* apart here are more than resetTime apart in the program. A span no longer than resetTime is
\* therefore one in which fewer than resetTime units have passed since its start.

\* an observer starts to watch the requests of key k
StartSpan(k) ==
  /\ ~span.on
  /\ span' = [on |-> TRUE, key |-> k, age |-> 0, allowed |-> 0]
  /\ UNCHANGED <<limit, resetTime, visitors, mu, pc, key, tmp, status, nextCalls, panicked, rpc,
                 sleepLeft, snap, sinceReset, age, allowedW, decidedW, lapsed, evicted>>
  /\ UNCHANGED aux

BurstNext ==
  \/ \E k \in Keys : StartSpan(k)
  \/ \E r \in Reqs, k \in Keys : Arrive(r, k)
  \/ \E r \in Reqs : Lock(r)
  \/ \E r \in Reqs : Read(r)
  \/ \E r \in Reqs : Write(r)
  \/ \E r \in Reqs : Check(r)
  \/ \E r \in Reqs : HandlerReturn(r)
  \/ \E r \in Reqs : HandlerPanic(r)
  \/ \E r \in Reqs : Unlock(r)
  \/ Wake
  \/ ResetLock
  \/ Clear
  \/ ResetUnlock
  \/ Tick

\* bursts are watched on the limiters built by NewRateLimiter(limit, 1) with limit >= 1
BurstInit == Init /\ limit >= 1 /\ resetTime = 1

BurstSpec == BurstInit /\ [][BurstNext]_vars

\* C26. Burst bound across a reset: consecutive resets are at least resetTime apart, so within
\* any time span no longer than resetTime a single key is allowed at most 2 x limit requests;
\* 2 x limit is reached by limit requests just before a reset and limit just after it.
C26_BurstBound ==
  span.on => span.allowed <= 2 * limit

\* the watched span has seen a reset, with limit requests of its key allowed before it and
\* limit after it
C26_Witness ==
  /\ limit >= 2
  /\ span.on
  /\ span.age < resetTime
  /\ span.allowed = 2 * limit
  /\ allowedW[span.key] = limit
====
